---- MODULE Spec2Model ----
(***************************************************************************)
(* Model of cnapi/cnapi.py, the CampusNet API client: the session facade   *)
(* CampusNetApi, the network clients UserClient and Authenticator, and the *)
(* XML extractors.  A response body is a sequence of XML tokens; the       *)
(* server's reply to each request is chosen nondeterministically.          *)
(***************************************************************************)
EXTENDS Integers, Sequences, FiniteSets, TLC

(* ----------------------------------------------------------------------- *)
(* Python values                                                           *)
(* ----------------------------------------------------------------------- *)

\* Python's None and a present value, kept apart from the empty list.
None == <<>>
Some(x) == <<x>>

\* The outcome of a call: a returned value or a raised exception.
Return(v) == [kind |-> "return", value |-> v]
Raise(e) == [kind |-> "raise", value |-> e]

\* Variant of GetItem: d.get(key), None for a missing key.
GetItemOrNone(d, key) ==
    IF key \in DOMAIN d THEN Return(d[key]) ELSE Return(None)

\* d[key] on a Python dict: KeyError when the key is missing.
GetItem(d, key) ==
    IF key \in DOMAIN d THEN Return(d[key]) ELSE Raise("KeyError")

\* s[-n:] on a Python string: the last n characters, or all of s when shorter.
LastChars(s, n) ==
    IF Len(s) <= n THEN s ELSE SubSeq(s, Len(s) - n + 1, Len(s))

(* ----------------------------------------------------------------------- *)
(* xml.etree.ElementTree                                                   *)
(* ----------------------------------------------------------------------- *)

\* Tokens of a response body.
Open(tag, attrib) == [k |-> "open", tag |-> tag, attrib |-> attrib]
Close(tag) == [k |-> "close", tag |-> tag, attrib |-> <<>>]
Empty(tag, attrib) == [k |-> "empty", tag |-> tag, attrib |-> attrib]
Text == [k |-> "text", tag |-> "", attrib |-> <<>>]

Element(tag, attrib, children) ==
    [tag |-> tag, attrib |-> attrib, children |-> children]

\* One step of the parser: stack holds the elements still open, root the
\* finished document element (None until it is closed).
RECURSIVE ParseFrom(_, _, _, _)
ParseFrom(text, i, stack, root) ==
    IF i > Len(text)
    THEN IF stack = <<>> /\ root # None THEN Return(root[1])
         ELSE Raise("ParseError")
    ELSE LET tok == text[i]
             n == Len(stack)
         IN  CASE tok.k = "open" ->
                    IF n = 0 /\ root # None THEN Raise("ParseError")
                    ELSE ParseFrom(text, i + 1,
                             Append(stack, Element(tok.tag, tok.attrib, <<>>)),
                             root)
               [] tok.k = "empty" ->
                    IF n = 0
                    THEN IF root # None THEN Raise("ParseError")
                         ELSE ParseFrom(text, i + 1, stack,
                                  Some(Element(tok.tag, tok.attrib, <<>>)))
                    ELSE ParseFrom(text, i + 1,
                             [stack EXCEPT ![n].children =
                                 Append(@, Element(tok.tag, tok.attrib, <<>>))],
                             root)
               [] tok.k = "text" ->
                    \* character data: an error outside the document element
                    IF n = 0 THEN Raise("ParseError")
                    ELSE ParseFrom(text, i + 1, stack, root)
               [] tok.k = "close" ->
                    IF n = 0 \/ stack[n].tag # tok.tag THEN Raise("ParseError")
                    ELSE IF n = 1
                    THEN ParseFrom(text, i + 1, <<>>, Some(stack[1]))
                    ELSE ParseFrom(text, i + 1,
                             [SubSeq(stack, 1, n - 1) EXCEPT ![n - 1].children =
                                 Append(@, stack[n])],
                             root)

\* xml.etree.ElementTree.fromstring: the root element, or ParseError.
fromstring(text) == ParseFrom(text, 1, <<>>, None)

\* The children of e, in order, whose tag is tag.
ChildrenTagged(e, tag) ==
    SelectSeq(e.children, LAMBDA c : c.tag = tag)

RECURSIVE Descendants(_)
Descendants(es) ==
    IF es = <<>> THEN <<>>
    ELSE <<Head(es)>> \o Descendants(Head(es).children) \o Descendants(Tail(es))

\* Variant of find: the first element with that tag anywhere below e.
find_descendant(e, tag) ==
    LET cs == SelectSeq(Descendants(e.children), LAMBDA c : c.tag = tag)
    IN  IF cs = <<>> THEN None ELSE Some(cs[1])

\* Element.find(tag): the first child with that tag, or None.
find(e, tag) ==
    LET cs == ChildrenTagged(e, tag)
    IN  IF cs = <<>> THEN None ELSE Some(cs[1])

RECURSIVE FlatMapTagged(_, _)
FlatMapTagged(es, tag) ==
    IF es = <<>> THEN <<>>
    ELSE ChildrenTagged(Head(es), tag) \o FlatMapTagged(Tail(es), tag)

\* Element.findall(path): path is the sequence of tags between the slashes;
\* each step selects the matching children of the previous step's elements.
RECURSIVE FindAllFrom(_, _)
FindAllFrom(es, path) ==
    IF path = <<>> THEN es
    ELSE FindAllFrom(FlatMapTagged(es, Head(path)), Tail(path))

findall(e, path) == FindAllFrom(<<e>>, path)

(* ----------------------------------------------------------------------- *)
(* Data records                                                            *)
(* ----------------------------------------------------------------------- *)

Student(first_name, last_name, email) ==
    [first_name |-> first_name, last_name |-> last_name, email |-> email]

ExamResult(course, ects_points, grade, period, year) ==
    [course |-> course, ects_points |-> ects_points, grade |-> grade,
     period |-> period, year |-> year]

Course(title, course_number) ==
    [title |-> title, course_number |-> course_number]

(* ----------------------------------------------------------------------- *)
(* AbstractXmlInfoExtractor, UserInfoExtractor, UserGradesExtractor        *)
(* ----------------------------------------------------------------------- *)

\* Variant of _is_response_ok: only the tag 'Fault' itself is a fault.
is_response_ok_exact_tag(xml_response) == xml_response.tag # "Fault"

is_response_ok(xml_response) == LastChars(xml_response.tag, 5) # "Fault"

UserInfo_extract_information(xml_response) ==
    LET student_info_xml == xml_response.attrib
        given == GetItem(student_info_xml, "GivenName")
        family == GetItem(student_info_xml, "FamilyName")
        email == GetItem(student_info_xml, "Email")
    IN  IF given.kind = "raise" THEN given
        ELSE IF family.kind = "raise" THEN family
        ELSE IF email.kind = "raise" THEN email
        ELSE Return(Some(Student(given.value, family.value, email.value)))

map_to_course(course_xml) ==
    LET name == GetItem(course_xml, "Name")
        code == GetItem(course_xml, "CourseCode")
    IN  IF name.kind = "raise" THEN name
        ELSE IF code.kind = "raise" THEN code
        ELSE Return(Course(name.value, code.value))

map_to_exam_results(course_xml) ==
    LET course == map_to_course(course_xml)
        ects == GetItem(course_xml, "EctsPoints")
        grade == GetItem(course_xml, "Grade")
        period == GetItem(course_xml, "Period")
        year == GetItem(course_xml, "Year")
    IN  IF course.kind = "raise" THEN course
        ELSE IF ects.kind = "raise" THEN ects
        ELSE IF grade.kind = "raise" THEN grade
        ELSE IF period.kind = "raise" THEN period
        ELSE IF year.kind = "raise" THEN year
        ELSE Return(ExamResult(course.value, ects.value, grade.value,
                               period.value, year.value))

ExamResultPath == <<"EducationProgramme", "ExamResults", "ExamResult">>

\* The list comprehension: the first element that fails to map raises.
RECURSIVE MapExamResults(_)
MapExamResults(courses_xml) ==
    IF courses_xml = <<>> THEN Return(<<>>)
    ELSE LET first == map_to_exam_results(Head(courses_xml).attrib)
         IN  IF first.kind = "raise" THEN first
             ELSE LET rest == MapExamResults(Tail(courses_xml))
                  IN  IF rest.kind = "raise" THEN rest
                      ELSE Return(<<first.value>> \o rest.value)

\* Variant of _extract_information: None instead of an empty list.
UserGrades_extract_information_none_when_empty(xml_response) ==
    LET courses_xml == findall(xml_response, ExamResultPath)
        mapped == MapExamResults(courses_xml)
    IN  IF mapped.kind = "raise" THEN mapped
        ELSE IF mapped.value = <<>> THEN Return(None)
        ELSE Return(Some(mapped.value))

UserGrades_extract_information(xml_response) ==
    LET courses_xml == findall(xml_response, ExamResultPath)
        mapped == MapExamResults(courses_xml)
    IN  IF mapped.kind = "raise" THEN mapped
        ELSE Return(Some(mapped.value))

extract_information(variant, xml_response) ==
    IF variant = "UserInfo" THEN UserInfo_extract_information(xml_response)
    ELSE UserGrades_extract_information(xml_response)

\* Variant of extract: a parse error is swallowed and None returned.
extract_swallowing_parse_error(variant, response_text) ==
    LET xml_response == fromstring(response_text)
    IN  IF xml_response.kind = "raise"
        THEN [outcome |-> Return(None), mapper_calls |-> 0]
        ELSE IF is_response_ok(xml_response.value)
        THEN [outcome |-> extract_information(variant, xml_response.value),
              mapper_calls |-> 1]
        ELSE [outcome |-> Return(None), mapper_calls |-> 0]

\* extract(): the outcome of the call and the number of times it called the
\* variant's _extract_information.
\* (response_text.encode('utf-8') hands the same document to the parser as
\* bytes; the tokens are unchanged.)
extract(variant, response_text) ==
    LET xml_response == fromstring(response_text)
    IN  IF xml_response.kind = "raise"
        THEN [outcome |-> xml_response, mapper_calls |-> 0]
        ELSE IF is_response_ok(xml_response.value)
        THEN [outcome |-> extract_information(variant, xml_response.value),
              mapper_calls |-> 1]
        ELSE [outcome |-> Return(None), mapper_calls |-> 0]

(* ----------------------------------------------------------------------- *)
(* Authenticator                                                           *)
(* ----------------------------------------------------------------------- *)

Authenticator_is_authenticated(response_text_xml) ==
    find(response_text_xml, "LimitedAccess") # None

extract_password_from_response_body(response_text) ==
    LET response_text_xml == fromstring(response_text)
    IN  IF response_text_xml.kind = "raise" THEN response_text_xml
        ELSE IF Authenticator_is_authenticated(response_text_xml.value)
        THEN LET password ==
                     GetItem(find(response_text_xml.value,
                                  "LimitedAccess")[1].attrib, "Password")
             IN  IF password.kind = "raise" THEN password
                 ELSE Return(Some(password.value))
        ELSE Return(None)

(* ----------------------------------------------------------------------- *)
(* Network requests                                                        *)
(* ----------------------------------------------------------------------- *)

Request(method, url, headers, auth, data) ==
    [method |-> method, url |-> url, headers |-> headers,
     auth |-> auth, data |-> data]

\* What the server sends back: a response with a body, or nothing at all
\* (requests raises ConnectionError).
Response(text) == [kind |-> "response", text |-> text]
ConnectionError == [kind |-> "error", text |-> <<>>]

UserClient_headers(client) ==
    ("X-appname" :> client.app_name) @@ ("X-token" :> client.api_token)
    @@ ("accept-language" :> "da-DK")
    @@ ("X-Include-services-and-relations" :> "true")

\* Variant of UserClient.get: the GET is sent again after a connection error.
UserClient_get_retrying(client, path, reply) ==
    LET request ==
            Request("GET",
                    "https://www.campusnet.dtu.dk/data/CurrentUser/" \o path,
                    UserClient_headers(client),
                    Some(<<client.student_number, client.access_token>>),
                    None)
    IN  [requests |-> IF reply.kind = "error" THEN <<request, request>>
                      ELSE <<request>>,
         outcome |-> IF reply.kind = "error" THEN Raise("ConnectionError")
                     ELSE Return(reply.text)]

\* UserClient.get: one GET; the requests made and the outcome of the call.
UserClient_get(client, path, reply) ==
    [requests |->
        <<Request("GET",
                  "https://www.campusnet.dtu.dk/data/CurrentUser/" \o path,
                  UserClient_headers(client),
                  Some(<<client.student_number, client.access_token>>),
                  None)>>,
     outcome |-> IF reply.kind = "error" THEN Raise("ConnectionError")
                 ELSE Return(reply.text)]

Authenticator_headers(auth) ==
    ("X-appname" :> auth.app_name) @@ ("X-token" :> auth.api_token)

authentication_payload(username, password) ==
    [username |-> username, password |-> password]

\* Authenticator.auth_token: one POST, then the token read from the body.
Authenticator_auth_token(auth, username, password, reply) ==
    [requests |->
        <<Request("POST", "https://auth.dtu.dk/dtu/mobilapp.jsp",
                  Authenticator_headers(auth), None,
                  Some(authentication_payload(username, password)))>>,
     outcome |-> IF reply.kind = "error" THEN Raise("ConnectionError")
                 ELSE extract_password_from_response_body(reply.text)]

(* ----------------------------------------------------------------------- *)
(* Inputs: constructor arguments, passwords and response bodies            *)
(* ----------------------------------------------------------------------- *)

\* The largest number of ExamResult elements in a generated grades document.
MaxResults == 2

AppNames == {"MyCampusNetApp"}
ApiTokens == {"sh2870272-2ush292"}
StudentNumbers == {"s123456", "s654321"}
InitialAuthTokens == {None, Some("tok1")}
Passwords == {"secret-password"}

Variants == {"1", "2"}
NoAttrib == <<>>

SeqsUpTo(S, n) == UNION {[1..k -> S] : k \in 0..n}

Doc(tag, attrib, body) == <<Open(tag, attrib)>> \o body \o <<Close(tag)>>

ProfileAttrNames == {"GivenName", "FamilyName", "Email"}
ExamAttrNames ==
    {"Name", "CourseCode", "EctsPoints", "Grade", "Period", "Year"}

\* An attribute set whose values tell the attribute and the element apart.
Attrib(names, v) == [n \in names |-> n \o v]

FaultTags == {"Fault", "UserFault", "GradesFault"}
NearFaultTags == {"Faults", "fault", "Faul"}

\* --- profile documents: the attributes sit on the root element
ProfileAttribs ==
    {Attrib(S, "1") : S \in SUBSET ProfileAttrNames}
    \cup {Attrib(ProfileAttrNames, "2"),
          Attrib(ProfileAttrNames \cup {"UserId"}, "2")}

\* Root tags that come close to a fault tag carry complete and empty profiles.
ProfileTexts ==
    {<<Empty("User", a)>> : a \in ProfileAttribs}
    \cup {<<Empty(t, a)>> : t \in NearFaultTags,
                             a \in {NoAttrib, Attrib(ProfileAttrNames, "1")}}

\* --- grades documents
ExamElems(es) == [i \in 1..Len(es) |-> Empty("ExamResult", es[i])]

GradesBody(es) ==
    <<Open("EducationProgramme", NoAttrib), Open("ExamResults", NoAttrib)>>
    \o ExamElems(es)
    \o <<Close("ExamResults"), Close("EducationProgramme")>>

FullExamSeqs == SeqsUpTo({Attrib(ExamAttrNames, v) : v \in Variants}, MaxResults)

\* One element lacks one attribute, at any position among complete ones.
DeficientExamSeqs ==
    UNION {{[i \in 1..k |-> IF i = p THEN Attrib(ExamAttrNames \ {a}, "2")
                            ELSE Attrib(ExamAttrNames, "1")]
               : p \in 1..k, a \in ExamAttrNames} : k \in 1..MaxResults}

\* ExamResult elements spread over several EducationProgramme and ExamResults
\* elements, and ExamResult elements that are not on the path.
StructuredGradesTexts ==
    {Doc("Grades", NoAttrib,
         GradesBody(<<Attrib(ExamAttrNames, "1")>>)
         \o GradesBody(<<Attrib(ExamAttrNames, "2")>>)),
     Doc("Grades", NoAttrib,
         <<Open("EducationProgramme", NoAttrib),
           Open("ExamResults", NoAttrib),
           Empty("ExamResult", Attrib(ExamAttrNames, "2")),
           Close("ExamResults"),
           Text,
           Open("ExamResults", NoAttrib),
           Empty("ExamResult", Attrib(ExamAttrNames, "1")),
           Close("ExamResults"),
           Close("EducationProgramme")>>),
     Doc("Grades", NoAttrib,
         <<Empty("ExamResult", Attrib({"Name"}, "1"))>>
         \o GradesBody(<<Attrib(ExamAttrNames, "1")>>)
         \o <<Open("ExamResults", NoAttrib),
              Empty("ExamResult", Attrib(ExamAttrNames, "2")),
              Close("ExamResults")>>),
     Doc("Grades", NoAttrib,
         <<Open("EducationProgramme", NoAttrib),
           Empty("ExamResult", Attrib({"Grade"}, "1")),
           Open("ExamResults", NoAttrib),
           Open("ExamResult", Attrib(ExamAttrNames, "1")),
           Empty("ExamResult", Attrib(ExamAttrNames, "2")),
           Close("ExamResult"),
           Close("ExamResults"),
           Close("EducationProgramme")>>),
     <<Empty("Grades", NoAttrib)>>,
     <<Empty("ExamResult", Attrib(ExamAttrNames, "1"))>>}

GradesTexts ==
    {Doc("Grades", NoAttrib, GradesBody(es))
        : es \in FullExamSeqs \cup DeficientExamSeqs}
    \cup {Doc(t, NoAttrib, GradesBody(<<Attrib(ExamAttrNames, "1")>>))
             : t \in NearFaultTags}
    \cup StructuredGradesTexts

\* --- authentication documents
Tokens == {"tok1", "tok2"}
LimitedAccess(tok) == Empty("LimitedAccess", [Password |-> tok])

AuthTexts ==
    {Doc("Root", NoAttrib, <<LimitedAccess(tok)>>) : tok \in Tokens}
    \cup
    {Doc("Root", NoAttrib, <<LimitedAccess("tok1"), LimitedAccess("tok2")>>),
     Doc("Root", NoAttrib,
         <<Empty("Info", [Password |-> "tok1"]), Text, LimitedAccess("tok2")>>),
     Doc("Root", NoAttrib,
         <<Open("LimitedAccess", [Password |-> "tok2"]),
           LimitedAccess("tok1"), Close("LimitedAccess")>>),
     \* LimitedAccess is the document's only element
     <<LimitedAccess("tok1")>>,
     Doc("LimitedAccess", [Password |-> "tok2"], <<>>),
     \* LimitedAccess sits below a child of the root
     Doc("Root", NoAttrib, Doc("Access", NoAttrib, <<LimitedAccess("tok1")>>)),
     \* no LimitedAccess at all
     <<Empty("BlockedAccess", [Reason |-> "password"])>>,
     Doc("Root", NoAttrib, <<Empty("BlockedAccess", NoAttrib)>>),
     Doc("Root", [Password |-> "tok1"], <<Empty("limitedaccess", NoAttrib)>>),
     \* LimitedAccess without a Password
     Doc("Root", NoAttrib, <<Empty("LimitedAccess", NoAttrib)>>),
     Doc("Root", NoAttrib,
         <<Empty("LimitedAccess", [Token |-> "tok1"]), LimitedAccess("tok2")>>)}

\* --- fault documents, with the contents of every kind of document
FaultBodies ==
    {<<>>,
     <<Empty("Error", [Message |-> "denied"])>>,
     GradesBody(<<Attrib(ExamAttrNames, "1")>>),
     GradesBody(<<Attrib({"Name"}, "1")>>),
     <<LimitedAccess("tok1")>>}

FaultTexts ==
    {Doc(t, NoAttrib, b) : t \in FaultTags, b \in FaultBodies}
    \cup {<<Empty(t, a)>> : t \in FaultTags,
                             a \in {NoAttrib, Attrib(ProfileAttrNames, "1")}}

\* --- bodies that are not well-formed XML
MalformedTexts ==
    {<<>>,
     <<Text>>,
     <<Open("User", Attrib(ProfileAttrNames, "1"))>>,
     <<Close("User")>>,
     <<Open("User", Attrib(ProfileAttrNames, "1")), Close("Grades")>>,
     <<Empty("User", Attrib(ProfileAttrNames, "1")), Empty("User", NoAttrib)>>,
     <<Empty("User", Attrib(ProfileAttrNames, "1")), Text>>,
     <<Open("Fault", NoAttrib)>>,
     <<Open("Fault", NoAttrib), Close("Fault"), Close("Fault")>>,
     <<Open("Grades", NoAttrib)>> \o GradesBody(<<Attrib(ExamAttrNames, "1")>>),
     <<Open("Grades", NoAttrib), Open("EducationProgramme", NoAttrib),
       Close("Grades"), Close("EducationProgramme")>>,
     <<Open("Root", NoAttrib), LimitedAccess("tok1")>>,
     <<Open("Root", NoAttrib), LimitedAccess("tok1"), Close("root")>>,
     <<LimitedAccess("tok1"), LimitedAccess("tok2")>>}

WellFormedTexts == ProfileTexts \cup GradesTexts \cup AuthTexts \cup FaultTexts

\* Bodies every endpoint may answer with, whatever was asked.
CommonTexts ==
    MalformedTexts \cup FaultTexts
    \cup {<<Empty("User", Attrib(ProfileAttrNames, "1"))>>,
          Doc("Grades", NoAttrib, GradesBody(<<Attrib(ExamAttrNames, "1")>>)),
          Doc("Root", NoAttrib, <<LimitedAccess("tok1")>>)}

Replies(texts) ==
    {Response(t) : t \in texts \cup CommonTexts} \cup {ConnectionError}

AuthReplies == Replies(AuthTexts)
GradesReplies == Replies(GradesTexts)
ProfileReplies == Replies(ProfileTexts)

(* ----------------------------------------------------------------------- *)
(* CampusNetApi                                                            *)
(* ----------------------------------------------------------------------- *)

VARIABLES
    app_name,        \* CampusNetApi.app_name
    api_token,       \* CampusNetApi.api_token
    student_number,  \* CampusNetApi.student_number
    auth_token,      \* CampusNetApi.auth_token: None or Some(token)
    last_call,       \* the public method called last
    network,         \* the requests that call put on the wire, in order
    reply,           \* what the server answered to it
    mapper_calls,    \* how often that call ran an _extract_information
    result           \* the outcome of that call

vars == <<app_name, api_token, student_number, auth_token,
          last_call, network, reply, mapper_calls, result>>

\* CampusNetApi.__init__
Init ==
    /\ app_name \in AppNames
    /\ api_token \in ApiTokens
    /\ student_number \in StudentNumbers
    /\ auth_token \in InitialAuthTokens
    /\ last_call = "__init__"
    /\ network = <<>>
    /\ reply = ConnectionError
    /\ mapper_calls = 0
    /\ result = Return(None)

is_authenticated == auth_token # None

get_auth_token(password, r) ==
    Authenticator_auth_token([app_name |-> app_name, api_token |-> api_token],
                             student_number, password, r)

client ==
    [app_name |-> app_name, api_token |-> api_token,
     student_number |-> student_number, access_token |-> auth_token]

\* Variant of authenticate: a failed authentication keeps the old token.
authenticate_keeping_token(password, r) ==
    LET call == get_auth_token(password, r)
    IN  /\ auth_token' = IF call.outcome.kind = "return"
                             /\ call.outcome.value # None
                         THEN call.outcome.value ELSE auth_token
        /\ result' = IF call.outcome.kind = "return"
                     THEN Return(None) ELSE call.outcome
        /\ network' = call.requests
        /\ mapper_calls' = 0
        /\ last_call' = "authenticate"
        /\ reply' = r
        /\ UNCHANGED <<app_name, api_token, student_number>>

\* Variant of authenticate: the token is assigned only while it is absent.
authenticate_once(password, r) ==
    LET call == get_auth_token(password, r)
    IN  /\ auth_token' = IF call.outcome.kind = "return" /\ auth_token = None
                         THEN call.outcome.value ELSE auth_token
        /\ result' = IF call.outcome.kind = "return"
                     THEN Return(None) ELSE call.outcome
        /\ network' = call.requests
        /\ mapper_calls' = 0
        /\ last_call' = "authenticate"
        /\ reply' = r
        /\ UNCHANGED <<app_name, api_token, student_number>>

\* Variant of authenticate: the token is stored in api_token.
authenticate_into_api_token(password, r) ==
    LET call == get_auth_token(password, r)
    IN  /\ api_token' = IF call.outcome.kind = "return"
                            /\ call.outcome.value # None
                        THEN call.outcome.value[1] ELSE api_token
        /\ result' = IF call.outcome.kind = "return"
                     THEN Return(None) ELSE call.outcome
        /\ network' = call.requests
        /\ mapper_calls' = 0
        /\ last_call' = "authenticate"
        /\ reply' = r
        /\ UNCHANGED <<app_name, auth_token, student_number>>

\* CampusNetApi.authenticate(password)
authenticate(password, r) ==
    LET call == get_auth_token(password, r)
    IN  /\ auth_token' = IF call.outcome.kind = "return"
                         THEN call.outcome.value ELSE auth_token
        /\ result' = IF call.outcome.kind = "return"
                     THEN Return(None) ELSE call.outcome
        /\ network' = call.requests
        /\ mapper_calls' = 0
        /\ last_call' = "authenticate"
        /\ reply' = r
        /\ UNCHANGED <<app_name, api_token, student_number>>

\* Variant of fetch: without a token no request is sent and None returned.
fetch_checking_authentication(variant, path, r) ==
    LET call == UserClient_get(client, path, r)
        ex == extract(variant, call.outcome.value)
    IN  /\ network' = IF auth_token = None THEN <<>> ELSE call.requests
        /\ result' = IF auth_token = None THEN Return(None)
                     ELSE IF call.outcome.kind = "raise" THEN call.outcome
                     ELSE ex.outcome
        /\ mapper_calls' = IF auth_token = None \/ call.outcome.kind = "raise"
                           THEN 0 ELSE ex.mapper_calls
        /\ reply' = r
        /\ UNCHANGED <<app_name, api_token, student_number, auth_token>>

\* get(path).text handed to an extractor: the body of grades and user_info
fetch(variant, path, r) ==
    LET call == UserClient_get(client, path, r)
        ex == extract(variant, call.outcome.value)
    IN  /\ network' = call.requests
        /\ result' = IF call.outcome.kind = "raise" THEN call.outcome
                     ELSE ex.outcome
        /\ mapper_calls' = IF call.outcome.kind = "raise" THEN 0
                           ELSE ex.mapper_calls
        /\ reply' = r
        /\ UNCHANGED <<app_name, api_token, student_number, auth_token>>

\* CampusNetApi.grades()
grades(r) ==
    /\ fetch("UserGrades", "Grades", r)
    /\ last_call' = "grades"

\* CampusNetApi.user_info()
user_info(r) ==
    /\ fetch("UserInfo", "UserInfo", r)
    /\ last_call' = "user_info"

Next ==
    \/ \E password \in Passwords, r \in AuthReplies : authenticate(password, r)
    \/ \E r \in GradesReplies : grades(r)
    \/ \E r \in ProfileReplies : user_info(r)

Spec == Init /\ [][Next]_vars

(* ----------------------------------------------------------------------- *)
(* Reading a document off its token stream, without building the tree      *)
(* ----------------------------------------------------------------------- *)

\* For each token of a well-formed body, the tags of the elements open when
\* the token is read (the root's tag first).
RECURSIVE AncestorsFrom(_, _, _)
AncestorsFrom(text, i, stack) ==
    IF i > Len(text) THEN <<>>
    ELSE <<stack>> \o
         AncestorsFrom(text, i + 1,
             IF text[i].k = "open" THEN Append(stack, text[i].tag)
             ELSE IF text[i].k = "close" THEN SubSeq(stack, 1, Len(stack) - 1)
             ELSE stack)

\* The attributes of the elements that sit on path below the root, in
\* document order.
AttribsOnPath(text, path) ==
    LET anc == AncestorsFrom(text, 1, <<>>)
        n == Len(path)
        OnPath(i) == /\ text[i].k \in {"open", "empty"}
                     /\ text[i].tag = path[n]
                     /\ Len(anc[i]) = n
                     /\ SubSeq(anc[i], 2, n) = SubSeq(path, 1, n - 1)
        idx == SelectSeq([i \in 1..Len(text) |-> i], OnPath)
    IN  [j \in 1..Len(idx) |-> text[idx[j]].attrib]

RootTag(text) == text[1].tag
RootAttrib(text) == text[1].attrib

HasElement(text, tag) ==
    \E i \in 1..Len(text) : text[i].k \in {"open", "empty"} /\ text[i].tag = tag

EndsWith(s, suffix) ==
    \E k \in 0..Len(s) : SubSeq(s, k + 1, Len(s)) = suffix

Returned(v) == result.kind = "return" /\ result.value = v
Raised(e) == result.kind = "raise" /\ result.value = e

\* The last call got a well-formed body back.
GotWellFormed == reply.kind = "response" /\ reply.text \in WellFormedTexts
GotFault == GotWellFormed /\ EndsWith(RootTag(reply.text), "Fault")
GotData == GotWellFormed /\ ~EndsWith(RootTag(reply.text), "Fault")

VariantOf(call) == IF call = "grades" THEN "UserGrades" ELSE "UserInfo"

(* ----------------------------------------------------------------------- *)
(* Properties                                                              *)
(* ----------------------------------------------------------------------- *)

\* C3: for a well-formed response whose root tag ends in 'Fault', extract()
\* of both extractors returns None without calling _extract_information,
\* whatever the document holds; for every other root tag the mapper is called
\* once and extract() ends as the mapper ended.
FaultYieldsNone ==
    last_call \in {"grades", "user_info"} =>
        /\ GotFault => Returned(None) /\ mapper_calls = 0
        /\ GotData =>
              /\ mapper_calls = 1
              /\ LET mapped == extract_information(VariantOf(last_call),
                                   fromstring(reply.text).value)
                 IN  result.kind = mapped.kind /\ result.value = mapped.value

\* A fault whose children are exam results that lack attributes.
FaultYieldsNoneWitness ==
    /\ last_call = "grades"
    /\ reply = Response(Doc("GradesFault", NoAttrib,
                            GradesBody(<<Attrib({"Name"}, "1")>>)))
    /\ Returned(None)
    /\ mapper_calls = 0

\* C5: a body that is not well-formed XML makes grades, user_info and
\* authenticate raise ParseError, never return, and leaves auth_token as it was.
MalformedRaises ==
    [][(reply'.kind = "response" /\ reply'.text \in MalformedTexts) =>
          /\ result'.kind = "raise"
          /\ result'.value = "ParseError"
          /\ auth_token' = auth_token]_vars

MalformedRaisesWitness ==
    /\ last_call = "authenticate"
    /\ reply = Response(<<Open("Root", NoAttrib), LimitedAccess("tok1")>>)
    /\ Raised("ParseError")
    /\ auth_token = Some("tok2")

\* The ExamResult record the mapper builds from one element's attributes.
RecordOf(a) ==
    [course |-> [title |-> a.Name, course_number |-> a.CourseCode],
     ects_points |-> a.EctsPoints, grade |-> a.Grade,
     period |-> a.Period, year |-> a.Year]

MatchedExamResults == AttribsOnPath(reply.text, ExamResultPath)

\* C6: for a non-fault grades document with N elements on the path
\* EducationProgramme/ExamResults/ExamResult, each carrying the six
\* attributes, grades() returns N records, the i-th built from the i-th
\* matched element in document order; for N = 0 the empty list.
GradesInDocumentOrder ==
    (/\ last_call = "grades"
     /\ GotData
     /\ \A i \in 1..Len(MatchedExamResults) :
            ExamAttrNames \subseteq DOMAIN MatchedExamResults[i]) =>
        Returned(Some([i \in 1..Len(MatchedExamResults) |->
                           RecordOf(MatchedExamResults[i])]))

GradesInDocumentOrderWitness ==
    /\ last_call = "grades"
    /\ reply = Response(Doc("Grades", NoAttrib,
                   GradesBody(<<Attrib(ExamAttrNames, "2"),
                                Attrib(ExamAttrNames, "1")>>)))
    /\ Len(result.value[1]) = 2
    /\ result.value[1][1].grade = "Grade2"
    /\ result.value[1][2].grade = "Grade1"

\* C9: a non-fault response that lacks an attribute its mapper reads makes
\* the call raise KeyError: user_info when the root lacks GivenName,
\* FamilyName or Email, grades when any one matched ExamResult lacks one of
\* its six attributes.
MissingAttributeRaises ==
    /\ (/\ last_call = "user_info"
        /\ GotData
        /\ ~(ProfileAttrNames \subseteq DOMAIN RootAttrib(reply.text))) =>
           Raised("KeyError")
    /\ (/\ last_call = "grades"
        /\ GotData
        /\ \E i \in 1..Len(MatchedExamResults) :
               ~(ExamAttrNames \subseteq DOMAIN MatchedExamResults[i])) =>
           Raised("KeyError")

\* The second of two exam results lacks its Year.
MissingAttributeRaisesWitness ==
    /\ last_call = "grades"
    /\ reply = Response(Doc("Grades", NoAttrib,
                   GradesBody(<<Attrib(ExamAttrNames, "1"),
                                Attrib(ExamAttrNames \ {"Year"}, "2")>>)))
    /\ Raised("KeyError")

\* C7: every public call puts exactly one request on the wire, whatever its
\* outcome: authenticate one POST to the authentication endpoint, grades one
\* GET to CurrentUser/Grades, user_info one GET to CurrentUser/UserInfo.
OneRequestPerCall ==
    /\ last_call = "__init__" => network = <<>>
    /\ last_call # "__init__" => Len(network) = 1
    /\ last_call = "authenticate" =>
          /\ network[1].method = "POST"
          /\ network[1].url = "https://auth.dtu.dk/dtu/mobilapp.jsp"
    /\ last_call = "grades" =>
          /\ network[1].method = "GET"
          /\ network[1].url = "https://www.campusnet.dtu.dk/data/CurrentUser/Grades"
    /\ last_call = "user_info" =>
          /\ network[1].method = "GET"
          /\ network[1].url = "https://www.campusnet.dtu.dk/data/CurrentUser/UserInfo"

\* No second request after the connection failed.
OneRequestPerCallWitness ==
    /\ last_call = "user_info"
    /\ reply = ConnectionError
    /\ Raised("ConnectionError")
    /\ Len(network) = 1

\* C8: grades and user_info called without a token still send their GET, with
\* the student number and an absent token as credentials, and the outcome is
\* the one the response alone decides.
NoAuthenticationPreCheck ==
    (last_call \in {"grades", "user_info"} /\ auth_token = None) =>
        /\ Len(network) = 1
        /\ network[1].method = "GET"
        /\ network[1].auth = Some(<<student_number, None>>)
        /\ GotFault => Returned(None)
        /\ reply.kind = "response" =>
              LET ex == extract(VariantOf(last_call), reply.text).outcome
              IN  result.kind = ex.kind /\ result.value = ex.value

\* An unauthenticated session is handed a profile when the server sends one.
NoAuthenticationPreCheckWitness ==
    /\ last_call = "user_info"
    /\ auth_token = None
    /\ network[1].auth = Some(<<student_number, None>>)
    /\ reply = Response(<<Empty("User", Attrib(ProfileAttrNames, "1"))>>)
    /\ Returned(Some([first_name |-> "GivenName1", last_name |-> "FamilyName1",
                      email |-> "Email1"]))

\* The attributes of the LimitedAccess children of the root, in order.
LimitedAccessChildren(text) == AttribsOnPath(text, <<"LimitedAccess">>)

\* C4 (as claimed): for a well-formed auth response that holds a LimitedAccess
\* element carrying a Password, wherever the element sits, the token is the
\* Password of such an element; with no LimitedAccess element it is None.
AuthTokenFromAnyLimitedAccess ==
    (last_call = "authenticate" /\ GotWellFormed) =>
        LET text == reply.text
            la == {i \in 1..Len(text) : /\ text[i].k \in {"open", "empty"}
                                        /\ text[i].tag = "LimitedAccess"}
        IN  (\A i \in la : "Password" \in DOMAIN text[i].attrib) =>
                /\ result.kind = "return"
                /\ IF la = {} THEN auth_token = None
                   ELSE \E i \in la : auth_token = Some(text[i].attrib.Password)

\* C4 (amended): the token is the Password of the first LimitedAccess element
\* that is a child of the root; it is None when the root has no such child,
\* also when the root itself or a deeper element is a LimitedAccess; the call
\* raises KeyError when that child has no Password.
AuthTokenFromRootChild ==
    (last_call = "authenticate" /\ GotWellFormed) =>
        LET las == LimitedAccessChildren(reply.text)
        IN  IF Len(las) = 0 THEN Returned(None) /\ auth_token = None
            ELSE IF "Password" \in DOMAIN las[1]
            THEN Returned(None) /\ auth_token = Some(las[1].Password)
            ELSE Raised("KeyError")

\* The document's only element is a LimitedAccess: no token.
AuthTokenFromRootChildWitness ==
    /\ last_call = "authenticate"
    /\ reply = Response(<<LimitedAccess("tok1")>>)
    /\ Returned(None)
    /\ auth_token = None

\* The body of the last call is well-formed and its root has no
\* LimitedAccess child (read in the state after the step when primed).
AuthenticationFailed ==
    /\ last_call = "authenticate"
    /\ GotWellFormed
    /\ Len(LimitedAccessChildren(reply.text)) = 0

IdentityNeverMutated ==
    [][/\ app_name' = app_name
       /\ api_token' = api_token
       /\ student_number' = student_number
       /\ last_call' \in {"grades", "user_info"} => auth_token' = auth_token]_vars

IdentityNeverMutatedWitness ==
    /\ last_call = "user_info"
    /\ Raised("KeyError")
    /\ student_number = "s654321"
    /\ app_name \in AppNames
    /\ api_token \in ApiTokens
    /\ auth_token = Some("tok2")

====
